---- MODULE Spec2Model ----
(***************************************************************************)
(* Model of Miri's mmap/munmap shims                                       *)
(* (src/tools/miri/src/shims/unix/mem.rs).                                 *)
(*                                                                         *)
(* The machine is scaled down: pages are PageSize bytes, the address space *)
(* is PageSize..MaxAddr (the page at address 0 is never allocated),     *)
(* and a byte is 0 or 1 (zero / non-zero).                                 *)
(***************************************************************************)
EXTENDS Integers, FiniteSets, Sequences, TLC

VARIABLES
    os,         \* this.tcx.sess.target.os, fixed for a whole execution
    allocs,     \* the live allocations of the interpreter's memory
    mem,        \* the bytes of the address space
    lastError,  \* the guest's errno slot (set_last_error)
    call,       \* the shim call (or guest step) executed last, with its arguments
    result,     \* what that call produced: a returned scalar or an abort
    freed       \* history: bases unmapped with result 0 and not handed out by mmap since

vars == <<os, allocs, mem, lastError, call, result, freed>>

----------------------------------------------------------------------------
(* Bounds of the model *)

MaxAddr == 5
MaxLength == 4

(* Host configuration *)

PageSize == 2
page_align == PageSize

(* The target's unsigned size type has UsizeBits bits (read_target_usize). *)
UsizeBits == 3
target_usize_max == 2 ^ UsizeBits - 1

AddrSpace == PageSize..MaxAddr
Lengths == 0..MaxLength
AllLengths == 0..target_usize_max
Byte == {0, 1}
TargetOS == {"linux", "macos"}

----------------------------------------------------------------------------
(* i32 bit arithmetic on non-negative values *)

RECURSIVE BitAnd(_, _)
BitAnd(a, b) ==
    IF a = 0 \/ b = 0 THEN 0
    ELSE (a % 2) * (b % 2) + 2 * BitAnd(a \div 2, b \div 2)

RECURSIVE BitOr(_, _)
BitOr(a, b) ==
    IF a = 0 THEN b
    ELSE IF b = 0 THEN a
    ELSE (IF a % 2 = 1 \/ b % 2 = 1 THEN 1 ELSE 0) + 2 * BitOr(a \div 2, b \div 2)

RECURSIVE count_ones(_)
count_ones(a) == IF a = 0 THEN 0 ELSE (a % 2) + count_ones(a \div 2)

----------------------------------------------------------------------------
(* libc constants of the target (eval_libc_i32) *)

MAP_SHARED == 1
MAP_PRIVATE == 2
MAP_FIXED == 16
MAP_ANONYMOUS == IF os = "macos" THEN 4096 ELSE 32
PROT_READ == 1
PROT_WRITE == 2
MAP_FAILED == -1

ProtValues == {0, PROT_READ, BitOr(PROT_READ, PROT_WRITE), 7}
FdValues == {-1, 3}
OffsetValues == {0, PageSize}
AddrHints == {0, PageSize}
FlagValues ==
    {a + b + c + d + e : a \in {0, 1}, b \in {0, 2}, c \in {0, 16},
                         d \in {0, 32}, e \in {0, 4096}}

----------------------------------------------------------------------------
(* Results of a call: a returned scalar, or the abort that ended execution *)

Returned(v) == [tag |-> "Ok", val |-> v, msg |-> ""]
throw_unsup(m) == [tag |-> "Unsupported", val |-> 0, msg |-> m]
throw_ub == [tag |-> "UndefinedBehavior", val |-> 0, msg |-> ""]
throw_exhaust == [tag |-> "ResourceExhaustion", val |-> 0, msg |-> ""]
NoResult == [tag |-> "none", val |-> 0, msg |-> ""]
Pending == [tag |-> "pending", val |-> 0, msg |-> ""]

AbortTags == {"Unsupported", "UndefinedBehavior", "ResourceExhaustion"}

(* An abort terminates the guest: no call is served after it. *)
Running == result.tag \notin AbortTags

NoCall ==
    [op |-> "none", addr |-> 0, length |-> 0, prot |-> 0, flags |-> 0,
     fd |-> 0, offset |-> 0, in_std |-> FALSE]

MmapCall(addr, length, prot, flags, fd, offset, in_std) ==
    [op |-> "mmap", addr |-> addr, length |-> length, prot |-> prot,
     flags |-> flags, fd |-> fd, offset |-> offset, in_std |-> in_std]

MunmapCall(addr, length) ==
    [NoCall EXCEPT !.op = "munmap", !.addr = addr, !.length = length]

----------------------------------------------------------------------------
(* The interpreter's memory: allocation, deallocation, rounding *)

round_to_next_multiple_of(x, divisor) ==
    ((x + divisor - 1) \div divisor) * divisor

Extent(al) == al.base .. (al.base + al.size - 1)

(* Bases where allocate_ptr can place size bytes with the given alignment. *)
FreeBases(size, align) ==
    {b \in AddrSpace :
        /\ b % align = 0
        /\ b + size - 1 <= MaxAddr
        /\ \A al \in allocs : Extent(al) \cap (b .. (b + size - 1)) = {}}

Allocation(base, size, align, kind) ==
    [base |-> base, size |-> size, align |-> align, kind |-> kind]

(* deallocate_ptr(ptr, Some((size, align)), kind): the allocation that     *)
(* matches exactly, if there is one.                                       *)
deallocate_ptr(ptr, size, align, kind) ==
    LET hit == {al \in allocs :
                   /\ al.base = ptr
                   /\ al.size = size
                   /\ al.align = align
                   /\ al.kind = kind}
    IN  [ok |-> hit # {}, allocs |-> allocs \ hit]

(* variant: the new allocation is left as the allocator returned it *)
write_nothing(m, ptr, n) == m

(* write_bytes_ptr(ptr, repeat(0).take(n)) *)
write_zeroes(m, ptr, n) ==
    [a \in DOMAIN m |-> IF ptr <= a /\ a < ptr + n THEN 0 ELSE m[a]]

----------------------------------------------------------------------------
(* mmap: the checks in the order of the code *)

(* variant: the frame of the caller is not looked at *)
IsGuardPageProbeAnyFrame(flags, in_std) ==
    os = "macos" /\ BitAnd(flags, MAP_FIXED) # 0

IsGuardPageProbe(flags, in_std) ==
    in_std /\ os = "macos" /\ BitAnd(flags, MAP_FIXED) # 0

(* variant: only the absence of both visibility bits is rejected *)
BadVisibilityNoneOnly(flags) ==
    BitAnd(flags, BitOr(MAP_PRIVATE, MAP_SHARED)) = 0

BadVisibility(flags) ==
    count_ones(BitAnd(flags, BitOr(MAP_PRIVATE, MAP_SHARED))) # 1

(* variant: the length test written as a sign test *)
ZeroLengthSigned(length) == length < 0

ZeroLength(length) == length = 0

(* variant: only descriptors below -1 are taken for a file *)
FileBackedNegative(fd) == fd < -1

FileBacked(fd) == fd # -1

(* variant: the protection is not looked at *)
FixedOnly(flags, prot) == BitAnd(flags, MAP_FIXED) # 0

FixedOrBadProt(flags, prot) ==
    BitAnd(flags, MAP_FIXED) # 0 \/ prot # BitOr(PROT_READ, PROT_WRITE)

(* variant: extension bits next to MAP_PRIVATE|MAP_ANONYMOUS are let through *)
BadFlagsMasked(flags) ==
    BitAnd(flags, BitOr(MAP_PRIVATE, MAP_ANONYMOUS)) # BitOr(MAP_PRIVATE, MAP_ANONYMOUS)

BadFlags(flags) == flags # BitOr(MAP_PRIVATE, MAP_ANONYMOUS)

(* variant: only an offset that is not page-aligned is refused *)
NonZeroOffsetUnaligned(offset) == offset % PageSize # 0

(* variant: the offset test written as a sign test *)
NonZeroOffsetSigned(offset) == offset < 0

NonZeroOffset(offset) == offset # 0

MsgFile == "Miri does not support file-backed memory mappings"
MsgFlags ==
    "Miri only supports calls to mmap which set the flags argument to MAP_PRIVATE|MAP_ANONYMOUS"
MsgOffset == "Miri does not support non-zero offsets to mmap"

(* variant: an unsupported-operation abort also leaves ENOTSUP behind *)
FinishErrnoOnAbort(r, err) ==
    /\ result' = r
    /\ lastError' = IF r.tag = "Unsupported" THEN "ENOTSUP" ELSE err
    /\ UNCHANGED <<allocs, mem, freed>>

(* variant: an error code already in the slot is not overwritten *)
FinishKeepsFirst(r, err) ==
    /\ result' = r
    /\ lastError' = IF lastError = "none" THEN err ELSE lastError
    /\ UNCHANGED <<allocs, mem, freed>>

(* A call that returns v or aborts without touching memory. *)
Finish(r, err) ==
    /\ result' = r
    /\ lastError' = err
    /\ UNCHANGED <<allocs, mem, freed>>

(* variant: the length is taken as the size of the allocation *)
MapLengthUnrounded(length) == length

(* variant: the length is rounded down to a multiple of the page size *)
MapLengthDown(length) == (length \div PageSize) * PageSize

MapLength(length) == round_to_next_multiple_of(length, PageSize)

(* The accepted request: allocate, zero-fill, return the pointer. *)
allocate_mapping(length) ==
    LET align == page_align
        map_length == MapLength(length)
    IN  IF FreeBases(map_length, align) = {} THEN
            Finish(throw_exhaust, lastError)
        ELSE
            \E ptr \in FreeBases(map_length, align) :
                /\ allocs' = allocs \cup
                       {Allocation(ptr, map_length, align, "Mmap")}
                /\ mem' = write_zeroes(mem, ptr, map_length)
                /\ result' = Returned(ptr)
                /\ freed' = freed \ {ptr}
                /\ lastError' = lastError

(* variant: the file descriptor is looked at before the arguments are      *)
(* validated                                                               *)
mmap_fd_first(addr, length, prot, flags, fd, offset, in_std) ==
    /\ Running
    /\ call' = MmapCall(addr, length, prot, flags, fd, offset, in_std)
    /\ os' = os
    /\ IF IsGuardPageProbe(flags, in_std) THEN
           Finish(Returned(addr), lastError)
       ELSE IF FileBacked(fd) THEN
           Finish(throw_unsup(MsgFile), lastError)
       ELSE IF BadVisibility(flags) THEN
           Finish(Returned(MAP_FAILED), "EINVAL")
       ELSE IF ZeroLength(length) THEN
           Finish(Returned(MAP_FAILED), "EINVAL")
       ELSE IF FixedOrBadProt(flags, prot) THEN
           Finish(Returned(MAP_FAILED), "ENOTSUP")
       ELSE IF BadFlags(flags) THEN
           Finish(throw_unsup(MsgFlags), lastError)
       ELSE IF NonZeroOffset(offset) THEN
           Finish(throw_unsup(MsgOffset), lastError)
       ELSE
           allocate_mapping(length)

mmap(addr, length, prot, flags, fd, offset, in_std) ==
    /\ Running
    /\ call' = MmapCall(addr, length, prot, flags, fd, offset, in_std)
    /\ os' = os
    /\ IF IsGuardPageProbe(flags, in_std) THEN
           Finish(Returned(addr), lastError)
       ELSE IF BadVisibility(flags) THEN
           Finish(Returned(MAP_FAILED), "EINVAL")
       ELSE IF ZeroLength(length) THEN
           Finish(Returned(MAP_FAILED), "EINVAL")
       ELSE IF FileBacked(fd) THEN
           Finish(throw_unsup(MsgFile), lastError)
       ELSE IF FixedOrBadProt(flags, prot) THEN
           Finish(Returned(MAP_FAILED), "ENOTSUP")
       ELSE IF BadFlags(flags) THEN
           Finish(throw_unsup(MsgFlags), lastError)
       ELSE IF NonZeroOffset(offset) THEN
           Finish(throw_unsup(MsgOffset), lastError)
       ELSE
           allocate_mapping(length)

----------------------------------------------------------------------------
(* munmap *)

(* variant: the remainder taken by 1 instead of the page size *)
MisalignedNever(addr) == addr % 1 # 0

Misaligned(addr) == addr % PageSize # 0

(* variant: a length of 0 is taken for one page *)
MunmapLengthAtLeastPage(length) ==
    IF length = 0 THEN PageSize ELSE round_to_next_multiple_of(length, PageSize)

(* variant: the length handed to the deallocation as given *)
MunmapLengthUnrounded(length) == length

MunmapLength(length) == round_to_next_multiple_of(length, PageSize)

(* variant: the deallocation asked for the Rust heap kind *)
MunmapKindRust == "Rust"

MunmapKind == "Mmap"

(* variant: the error of the deallocation is dropped *)
DeallocIgnored(d) == Returned(0)

(* deallocate_ptr(..)?; Ok(0): an error of the deallocation is the result *)
DeallocOutcome(d) == IF d.ok THEN Returned(0) ELSE throw_ub

munmap(addr, length) ==
    /\ Running
    /\ call' = MunmapCall(addr, length)
    /\ os' = os
    /\ IF Misaligned(addr) THEN
           Finish(Returned(-1), "EINVAL")
       ELSE
           LET d == deallocate_ptr(addr, MunmapLength(length), page_align, MunmapKind)
           IN  /\ allocs' = d.allocs
               /\ freed' = IF d.ok THEN freed \cup {addr} ELSE freed
               /\ result' = DeallocOutcome(d)
               /\ UNCHANGED <<mem, lastError>>

----------------------------------------------------------------------------
(* The guest between two shim calls: it allocates on the Rust heap and     *)
(* stores into memory it owns.                                             *)

HeapSizes == {PageSize}
HeapAligns == {page_align}

rust_alloc(size, align) ==
    /\ Running
    /\ \E b \in FreeBases(size, align) :
           allocs' = allocs \cup {Allocation(b, size, align, "Rust")}
    /\ call' = [NoCall EXCEPT !.op = "rust_alloc"]
    /\ result' = NoResult
    /\ UNCHANGED <<os, mem, lastError, freed>>

store(a) ==
    /\ Running
    /\ \E al \in allocs : al.kind = "Mmap" /\ a \in Extent(al)
    /\ mem[a] = 0
    /\ mem' = [mem EXCEPT ![a] = 1]
    /\ call' = [NoCall EXCEPT !.op = "store"]
    /\ result' = NoResult
    /\ UNCHANGED <<os, allocs, lastError, freed>>

----------------------------------------------------------------------------
(* The execution of a guest program *)

Init ==
    /\ os \in TargetOS
    /\ allocs = {}
    /\ mem \in [AddrSpace -> Byte]
    /\ lastError = "none"
    /\ call = NoCall
    /\ result = NoResult
    /\ freed = {}

(* The requests the guest of Spec makes: the accepted shape, and one       *)
(* request for each recoverable error.                                     *)
GuestFlags ==
    {BitOr(MAP_PRIVATE, MAP_ANONYMOUS),
     BitOr(MAP_PRIVATE, MAP_SHARED),
     BitOr(BitOr(MAP_PRIVATE, MAP_ANONYMOUS), MAP_FIXED)}

GuestMmap ==
    \E length \in Lengths, flags \in GuestFlags :
        mmap(0, length, BitOr(PROT_READ, PROT_WRITE), flags, -1, 0, FALSE)

GuestMunmap ==
    \E addr \in 0..MaxAddr, length \in Lengths : munmap(addr, length)

GuestAlloc ==
    \E size \in HeapSizes, align \in HeapAligns : rust_alloc(size, align)

GuestStore ==
    \E a \in AddrSpace : store(a)

Next == GuestMmap \/ GuestMunmap \/ GuestAlloc \/ GuestStore

Spec == Init /\ [][Next]_vars

----------------------------------------------------------------------------
(* One call with every combination of arguments, over the whole range of  *)
(* the target's size type, served in a state with or without a live       *)
(* mapping.                                                                *)

PriorAllocs == {{}, {Allocation(PageSize, PageSize, page_align, "Mmap")}}

InitValidate ==
    /\ os \in TargetOS
    /\ allocs \in PriorAllocs
    /\ mem = [a \in AddrSpace |-> 0]
    /\ lastError \in {"none", "EINVAL"}
    /\ call \in {MmapCall(addr, length, prot, flags, fd, offset, in_std) :
                    addr \in AddrHints, length \in AllLengths, prot \in ProtValues,
                    flags \in FlagValues, fd \in FdValues, offset \in OffsetValues,
                    in_std \in BOOLEAN}
                \cup {MunmapCall(addr, length) :
                         addr \in 0..MaxAddr, length \in AllLengths}
    /\ result = Pending
    /\ freed = {}

ServeMmap ==
    /\ result = Pending
    /\ call.op = "mmap"
    /\ mmap(call.addr, call.length, call.prot, call.flags, call.fd,
            call.offset, call.in_std)

ServeMunmap ==
    /\ result = Pending
    /\ call.op = "munmap"
    /\ munmap(call.addr, call.length)

NextValidate == ServeMmap \/ ServeMunmap

SpecValidate == InitValidate /\ [][NextValidate]_vars

----------------------------------------------------------------------------
(* Properties of the map/unmap life cycle (under Spec)                     *)

(* Vocabulary of the properties, stated on the arguments themselves. *)
HasBit(flags, bit) == (flags \div bit) % 2 = 1
RoundUp(n) == CHOOSE m \in 0..(n + PageSize) : m % PageSize = 0 /\ m >= n /\ m - n < PageSize
IsMunmapStep == call'.op = "munmap"
LiveMappings == {al \in allocs : al.kind = "Mmap"}

(* C1: a live mapping created by mmap (base p, size round_up(L)) is        *)
(* unmapped by munmap(p, L') for every L' that rounds up to the same size: *)
(* the call returns 0 and removes exactly that allocation.                 *)
C1_RoundTrip ==
    [][\A al \in LiveMappings :
          (IsMunmapStep /\ call'.addr = al.base /\ RoundUp(call'.length) = al.size)
          => (result' = Returned(0) /\ allocs' = allocs \ {al})]_vars

(* a mapping of one page was unmapped with a length that is not a multiple *)
(* of the page size                                                        *)
C1_Witness ==
    /\ call.op = "munmap"
    /\ call.length % PageSize # 0
    /\ result = Returned(0)
    /\ call.addr \in freed
    /\ \A al \in allocs : al.base # call.addr

(* C2: after an accepted mmap the returned pointer is a multiple of the    *)
(* page size and every byte of [ptr, ptr + round_up(length)) is zero.      *)
C2_AlignedAndZeroed ==
    (call.op = "mmap" /\ result.tag = "Ok" /\ result.val # MAP_FAILED)
    => /\ result.val % PageSize = 0
       /\ \A a \in result.val .. (result.val + RoundUp(call.length) - 1) :
              a \in DOMAIN mem /\ mem[a] = 0

(* an accepted mmap of a length that is rounded up, served while another   *)
(* page of the address space holds non-zero bytes                          *)
C2_Witness ==
    /\ call.op = "mmap"
    /\ result.tag = "Ok"
    /\ result.val # MAP_FAILED
    /\ call.length % PageSize # 0
    /\ \E al \in LiveMappings : al.base = result.val /\ al.size = RoundUp(call.length)
    /\ \E a \in AddrSpace : mem[a] # 0

(* C3: munmap of a base that was already unmapped (and not handed out by   *)
(* mmap since) ends in the undefined-behaviour abort, writes no error and  *)
(* leaves the live allocations alone.                                      *)
C3_DoubleUnmapIsFatal ==
    [][(IsMunmapStep /\ call'.addr \in freed)
       => (result' = throw_ub /\ lastError' = lastError /\ allocs' = allocs)]_vars

C3_Witness ==
    /\ call.op = "munmap"
    /\ call.addr \in freed
    /\ result = throw_ub

(* C4: a page-aligned munmap whose (addr, round_up(length)) is not the     *)
(* (base, size) of a live mapping-backed allocation ends in the            *)
(* undefined-behaviour abort, writes no error and deallocates nothing.     *)
C4_MismatchIsFatal ==
    [][(/\ IsMunmapStep
        /\ call'.addr % PageSize = 0
        /\ ~ \E al \in LiveMappings :
               al.base = call'.addr /\ al.size = RoundUp(call'.length))
       => (result' = throw_ub /\ lastError' = lastError /\ allocs' = allocs)]_vars

(* the first page of a two-page mapping was the target: partial unmapping  *)
C4_Witness ==
    /\ call.op = "munmap"
    /\ result = throw_ub
    /\ \E al \in LiveMappings :
           /\ al.base = call.addr
           /\ RoundUp(call.length) = PageSize
           /\ al.size = 2 * PageSize

(* C5: munmap of an address that is not a multiple of the page size        *)
(* returns -1 with the error EINVAL, for every length, and deallocates     *)
(* nothing.                                                                *)
C5_MisalignedIsEinval ==
    [][(IsMunmapStep /\ call'.addr % PageSize # 0)
       => (result' = Returned(-1) /\ lastError' = "EINVAL" /\ allocs' = allocs)]_vars

(* a misaligned address inside a live mapping, with the mapping's length *)
C5_Witness ==
    /\ call.op = "munmap"
    /\ call.addr % PageSize # 0
    /\ result = Returned(-1)
    /\ lastError = "EINVAL"
    /\ \E al \in LiveMappings :
           call.addr \in Extent(al) /\ RoundUp(call.length) = al.size

----------------------------------------------------------------------------
(* Properties of the validation of one mmap call (under SpecValidate)      *)

Served == call.op = "mmap" /\ result # Pending
ReadWrite == PROT_READ + PROT_WRITE
HatchFires(c) == c.in_std /\ os = "macos" /\ HasBit(c.flags, MAP_FIXED)
OneVisibility(c) == HasBit(c.flags, MAP_PRIVATE) # HasBit(c.flags, MAP_SHARED)
(* the call gets past the escape hatch, the visibility and the length check *)
PastLength(c) == ~HatchFires(c) /\ OneVisibility(c) /\ c.length # 0
(* ... and past the fd and the fixed/prot checks *)
PastProt(c) ==
    PastLength(c) /\ c.fd = -1 /\ ~HasBit(c.flags, MAP_FIXED) /\ c.prot = ReadWrite
ExtensionBits(c) ==
    \E bit \in {4, 8, 32, 64, 4096} : bit # MAP_ANONYMOUS /\ HasBit(c.flags, bit)
Failed(code) == result = Returned(MAP_FAILED) /\ lastError = code

(* C6 as stated: every mmap with fd # -1 ends in the unsupported abort.    *)
C6_Original ==
    (Served /\ call.fd # -1) => result.tag = "Unsupported"

(* C6: an mmap with fd # -1 that gets past the escape hatch, the           *)
(* visibility check and the length check ends in the unsupported-feature   *)
(* abort for file-backed mappings, whatever prot, offset and the other     *)
(* flag bits are.                                                          *)
C6_FileBackedAborts ==
    (Served /\ call.fd # -1 /\ PastLength(call))
    => (result.tag = "Unsupported" /\ result.msg = MsgFile)

(* a file-backed request that also sets MAP_FIXED and a read-only prot *)
C6_Witness ==
    /\ Served
    /\ call.fd # -1
    /\ HasBit(call.flags, MAP_FIXED)
    /\ call.prot = PROT_READ
    /\ call.offset # 0
    /\ result = throw_unsup(MsgFile)

(* C7 as stated: zero or two visibility bits always give EINVAL.           *)
C7_Original ==
    (Served /\ ~OneVisibility(call)) => Failed("EINVAL")

(* C7: an mmap with zero or two of the {private, shared} bits set, for     *)
(* which the escape hatch does not fire, returns MAP_FAILED with EINVAL.   *)
C7_VisibilityEinval ==
    (Served /\ ~OneVisibility(call) /\ ~HatchFires(call)) => Failed("EINVAL")

(* both bits set, on a file-backed request of non-zero length *)
C7_Witness ==
    /\ Served
    /\ HasBit(call.flags, MAP_PRIVATE) /\ HasBit(call.flags, MAP_SHARED)
    /\ call.fd # -1
    /\ call.length # 0
    /\ Failed("EINVAL")

(* C8 as stated: length 0 always gives EINVAL.                             *)
C8_Original ==
    (Served /\ call.length = 0) => Failed("EINVAL")

(* C8: an mmap with length 0 for which the escape hatch does not fire      *)
(* returns MAP_FAILED with EINVAL.                                         *)
C8_ZeroLengthEinval ==
    (Served /\ call.length = 0 /\ ~HatchFires(call)) => Failed("EINVAL")

(* length 0 with otherwise acceptable arguments *)
C8_Witness ==
    /\ Served
    /\ call.length = 0
    /\ call.flags = MAP_PRIVATE + MAP_ANONYMOUS
    /\ call.prot = ReadWrite /\ call.fd = -1 /\ call.offset = 0
    /\ Failed("EINVAL")

(* C9: past the hatch, visibility, length and fd checks, MAP_FIXED set or  *)
(* prot other than exactly read+write returns MAP_FAILED with ENOTSUP and  *)
(* allocates nothing.                                                      *)
C9_FixedOrProtEnotsup ==
    [][(/\ call'.op = "mmap"
        /\ PastLength(call') /\ call'.fd = -1
        /\ (HasBit(call'.flags, MAP_FIXED) \/ call'.prot # ReadWrite))
       => (/\ result' = Returned(MAP_FAILED)
           /\ lastError' = "ENOTSUP"
           /\ allocs' = allocs /\ mem' = mem)]_vars

(* read+write plus an extra protection bit, MAP_FIXED clear *)
C9_Witness ==
    /\ Served
    /\ call.prot = 7
    /\ ~HasBit(call.flags, MAP_FIXED)
    /\ call.fd = -1
    /\ Failed("ENOTSUP")

(* C10 as stated: every use of a feature outside the subset aborts.        *)
C10_Original ==
    (/\ Served
     /\ \/ call.fd # -1
        \/ HasBit(call.flags, MAP_FIXED)
        \/ HasBit(call.flags, MAP_SHARED)
        \/ call.prot # ReadWrite
        \/ call.offset # 0
        \/ ExtensionBits(call))
    => result.tag = "Unsupported"

(* C10: of the calls that get past the escape hatch, the visibility check  *)
(* and the length check, a file-backed one aborts; with fd = -1 a          *)
(* fixed-address one or one with a prot other than read+write returns      *)
(* MAP_FAILED with ENOTSUP; and with those clear a shared map, an          *)
(* extension flag bit or a non-zero offset aborts.                         *)
C10_UnsupportedFeatures ==
    (Served /\ PastLength(call))
    => /\ call.fd # -1 => result.tag = "Unsupported"
       /\ (call.fd = -1 /\ (HasBit(call.flags, MAP_FIXED) \/ call.prot # ReadWrite))
          => Failed("ENOTSUP")
       /\ (/\ PastProt(call)
           /\ \/ HasBit(call.flags, MAP_SHARED)
              \/ ExtensionBits(call)
              \/ call.offset # 0)
          => result.tag = "Unsupported"

(* a non-zero offset on an otherwise accepted request *)
C10_Witness ==
    /\ Served
    /\ PastProt(call)
    /\ call.flags = MAP_PRIVATE + MAP_ANONYMOUS
    /\ call.offset # 0
    /\ result = throw_unsup(MsgOffset)

(* C11: past checks 1-5 (no hatch, one visibility bit, length # 0,        *)
(* fd = -1, MAP_FIXED clear, prot = read+write), flags other than exactly  *)
(* MAP_PRIVATE|MAP_ANONYMOUS end in the unsupported-operation abort that   *)
(* names the flag combination: nothing is returned, the error slot is not  *)
(* written and nothing is allocated.                                       *)
C11_InexactFlagsAbort ==
    [][(/\ call'.op = "mmap"
        /\ PastProt(call')
        /\ call'.flags # MAP_PRIVATE + MAP_ANONYMOUS)
       => (/\ result' = throw_unsup(MsgFlags)
           /\ lastError' = lastError
           /\ allocs' = allocs /\ mem' = mem)]_vars

(* MAP_PRIVATE|MAP_ANONYMOUS plus an extension bit *)
C11_Witness ==
    /\ Served
    /\ PastProt(call)
    /\ HasBit(call.flags, MAP_PRIVATE) /\ HasBit(call.flags, MAP_ANONYMOUS)
    /\ ExtensionBits(call)
    /\ call.offset = 0
    /\ result = throw_unsup(MsgFlags)

(* C12: past checks 1-6 a non-zero offset ends in the unsupported-operation *)
(* abort (nothing returned, no error written, nothing allocated); a call   *)
(* that allocates has offset 0.                                            *)
C12_NonZeroOffsetAborts ==
    [][call'.op = "mmap"
       => /\ (/\ PastProt(call')
              /\ call'.flags = MAP_PRIVATE + MAP_ANONYMOUS
              /\ call'.offset # 0)
             => (/\ result' = throw_unsup(MsgOffset)
                 /\ lastError' = lastError
                 /\ allocs' = allocs /\ mem' = mem)
          /\ allocs' # allocs => call'.offset = 0]_vars

(* an offset of one page on an otherwise accepted request, nothing mapped *)
C12_Witness ==
    /\ Served
    /\ PastProt(call)
    /\ call.flags = MAP_PRIVATE + MAP_ANONYMOUS
    /\ call.offset = PageSize
    /\ call.length = PageSize
    /\ result = throw_unsup(MsgOffset)
    /\ allocs = {}

(* C13: an mmap call that ends in a recoverable rejection, in an           *)
(* unsupported-operation abort or in the escape hatch leaves the live      *)
(* allocations and the memory as they were, and only a recoverable         *)
(* rejection changes the error slot.                                       *)
C13_ValidatorFrame ==
    [][call'.op = "mmap"
       => /\ (\/ result' = Returned(MAP_FAILED)
              \/ result'.tag = "Unsupported"
              \/ HatchFires(call'))
             => (allocs' = allocs /\ mem' = mem /\ freed' = freed)
          /\ result' # Returned(MAP_FAILED) => lastError' = lastError]_vars

(* an abort served while the slot holds the error of an earlier call *)
C13_Witness ==
    /\ Served
    /\ result.tag = "Unsupported"
    /\ lastError = "EINVAL"
    /\ allocs # {}

----------------------------------------------------------------------------
(* Further properties of the life cycle (under Spec)                       *)

(* C14: every live mapping-backed allocation has a page-aligned base, a    *)
(* size that is a positive multiple of the page size and the page          *)
(* alignment; one appears only in an mmap call that returns its base, and  *)
(* one disappears only in a munmap call that returns 0 for exactly its     *)
(* base and size.                                                          *)
C14_MappingLifecycle ==
    /\ [](\A al \in LiveMappings :
             /\ al.base % PageSize = 0
             /\ al.size > 0 /\ al.size % PageSize = 0
             /\ al.align = page_align)
    /\ [][/\ \A al \in {x \in allocs' : x.kind = "Mmap"} \ LiveMappings :
                call'.op = "mmap" /\ result' = Returned(al.base)
          /\ \A al \in LiveMappings \ {x \in allocs' : x.kind = "Mmap"} :
                /\ IsMunmapStep
                /\ result' = Returned(0)
                /\ call'.addr = al.base
                /\ RoundUp(call'.length) = al.size]_vars

(* a two-page mapping just created for a length of one page and a byte *)
C14_Witness ==
    /\ call.op = "mmap"
    /\ call.length = PageSize + 1
    /\ \E al \in LiveMappings :
           /\ result = Returned(al.base)
           /\ al.size = 2 * PageSize
    /\ freed # {}

(* the error code of an mmap call that returns MAP_FAILED *)
MmapErrorCode(c) ==
    IF ~OneVisibility(c) \/ c.length = 0 THEN "EINVAL" ELSE "ENOTSUP"

(* C16: a call that returns its failure sentinel (mmap MAP_FAILED, munmap  *)
(* -1) leaves its own error code in the slot, overwriting what was there;  *)
(* every other call leaves the slot as it was, so the slot always holds    *)
(* the code of the latest failed call.                                     *)
C16_LastErrorLastCallWins ==
    [][call'.op \in {"mmap", "munmap"}
       => IF call'.op = "mmap" /\ result' = Returned(MAP_FAILED)
          THEN lastError' = MmapErrorCode(call')
          ELSE IF IsMunmapStep /\ result' = Returned(-1)
          THEN lastError' = "EINVAL"
          ELSE lastError' = lastError]_vars

(* a successful munmap after a failed mmap: the stale code is still there *)
C16_Witness ==
    /\ call.op = "munmap"
    /\ result = Returned(0)
    /\ lastError = "ENOTSUP"

(* C19: munmap with length 0 on a page-aligned address ends in the         *)
(* undefined-behaviour abort in every reachable state, also at the base of *)
(* a live mapping: it returns neither 0 nor -1, writes no error, and every *)
(* allocation stays live; no live mapping has size 0.                      *)
C19_ZeroLengthUnmapIsFatal ==
    /\ [](\A al \in LiveMappings : al.size # 0)
    /\ [][(IsMunmapStep /\ call'.length = 0 /\ call'.addr % PageSize = 0)
          => (result' = throw_ub /\ lastError' = lastError /\ allocs' = allocs)]_vars

(* length 0 at the base of a live one-page mapping *)
C19_Witness ==
    /\ call.op = "munmap"
    /\ call.length = 0
    /\ result = throw_ub
    /\ Allocation(call.addr, PageSize, page_align, "Mmap") \in allocs

----------------------------------------------------------------------------
(* Further properties of the validation (under SpecValidate)               *)

(* the call returned the base of an allocation it created *)
FreshMapping == \E al \in allocs' \ allocs : al.kind = "Mmap" /\ result' = Returned(al.base)

(* C15: on macOS, called from std, with MAP_FIXED set, mmap returns the    *)
(* addr hint as it is, whatever the other arguments are, and allocates     *)
(* and writes nothing; when one of the three does not hold the call never  *)
(* ends that way: it fails with an error code, aborts, or returns a        *)
(* mapping it created.                                                     *)
C15_EscapeHatch ==
    [][call'.op = "mmap"
       => IF call'.in_std /\ os = "macos" /\ HasBit(call'.flags, MAP_FIXED)
          THEN /\ result' = Returned(call'.addr)
               /\ lastError' = lastError
               /\ allocs' = allocs /\ mem' = mem
          ELSE \/ result' = Returned(MAP_FAILED) /\ lastError' \in {"EINVAL", "ENOTSUP"}
               \/ result'.tag \in AbortTags
               \/ FreshMapping]_vars

(* the probe with nothing else in order: no visibility bit, length 0, a    *)
(* file descriptor, a non-zero offset, no protection                       *)
C15_Witness ==
    /\ Served
    /\ os = "macos" /\ call.in_std
    /\ call.flags = MAP_FIXED
    /\ call.length = 0 /\ call.fd # -1 /\ call.offset # 0 /\ call.prot = 0
    /\ call.addr = PageSize
    /\ result = Returned(PageSize)
    /\ lastError = "none"
    /\ allocs = {}

(* The rules of the validator that a call violates (rule 1: the hatch     *)
(* fires), by their number in the order of the specification.              *)
ViolatedRules(c) ==
    {r \in 1..7 :
        \/ r = 1 /\ HatchFires(c)
        \/ r = 2 /\ ~OneVisibility(c)
        \/ r = 3 /\ c.length = 0
        \/ r = 4 /\ c.fd # -1
        \/ r = 5 /\ (HasBit(c.flags, MAP_FIXED) \/ c.prot # ReadWrite)
        \/ r = 6 /\ c.flags # MAP_PRIVATE + MAP_ANONYMOUS
        \/ r = 7 /\ c.offset # 0}

FirstViolated(c) ==
    IF ViolatedRules(c) = {} THEN 0
    ELSE CHOOSE r \in ViolatedRules(c) : \A q \in ViolatedRules(c) : r <= q

(* C17: the outcome of mmap is that of the first rule, in the order        *)
(* hatch, visibility, length, fd, fixed/prot, exact flags, offset, that    *)
(* the call violates, whatever later rules it violates as well.            *)
C17_FirstFailingRule ==
    [][call'.op = "mmap"
       => LET r == FirstViolated(call')
          IN  /\ r = 1 => result' = Returned(call'.addr) /\ lastError' = lastError
              /\ r \in {2, 3} => result' = Returned(MAP_FAILED) /\ lastError' = "EINVAL"
              /\ r = 4 => result' = throw_unsup(MsgFile)
              /\ r = 5 => result' = Returned(MAP_FAILED) /\ lastError' = "ENOTSUP"
              /\ r = 6 => result' = throw_unsup(MsgFlags)
              /\ r = 7 => result' = throw_unsup(MsgOffset)
              /\ r = 0 => FreshMapping \/ result' = throw_exhaust]_vars

(* rules 3 to 7 violated at once: the length rule decides *)
C17_Witness ==
    /\ Served
    /\ ViolatedRules(call) = 3..7
    /\ HasBit(call.flags, MAP_FIXED)
    /\ Failed("EINVAL")

(* the lengths whose round-up still is a value of the size type *)
RoundableLengths == 1..(target_usize_max + 1 - PageSize)

====
